---- MODULE Spec2Model ----
(***************************************************************************)
(* Connection lifecycle of panda_quantflow's two MongoDB connectors:       *)
(*   - MongoDB          (src/src/panda_server/config/database.py), the     *)
(*     asyncio connector whose state lives in the class attributes         *)
(*     client and db;                                                      *)
(*   - DatabaseHandler  (src/src/common/connector/mongodb_handler.py), the *)
(*     blocking singleton.                                                 *)
(* A driver client is an object with an identity (1..MaxClients) and a     *)
(* state: "free" (not constructed yet), "open" or "closed".                *)
(***************************************************************************)
EXTENDS Integers, FiniteSets, Sequences, TLC

\* ---------------------------------------------------------------- bounds
MaxClients == 3
MaxIndexCalls == 2

Clients == 1..MaxClients
\* asyncio tasks that call the MongoDB classmethods
Tasks == {1, 2}
\* the single caller of the sequential specification
SeqTasks == {1}
None == 0

VARIABLES
    \* ---- MongoDB (database.py)
    client,        \* MongoDB.client: None or the id of a Motor client
    db,            \* MongoDB.db: None or the id of the client the database is bound to
    cstate,        \* state of every Motor client object
    pinged,        \* Motor clients whose ping command succeeded
    RUN_MODE,      \* panda_server.config.env.RUN_MODE
    pc,            \* where each task is: "idle", "ping" (line 55), "idx" (line 78)
    pingdb,        \* the database object each suspended connect_db issued its ping on
    ret,           \* what each task's latest completed call did
    indexCalls,    \* number of init_all_indexes invocations
    \* ---- DatabaseHandler (mongodb_handler.py)
    instance,      \* DatabaseHandler._instance is set
    initialized,   \* self.initialized (FALSE: attribute not set)
    config,        \* self.config
    DEFAULT_MONGO_DB, \* self.DEFAULT_MONGO_DB
    mongo_client,  \* self.mongo_client: None or the id of a pymongo client
    hstate,        \* state of every pymongo client object
    hpinged,       \* pymongo clients whose ping succeeded
    pings,         \* number of ping commands DatabaseHandler has sent
    harg,          \* the config passed to the latest construction
    hret,          \* what the latest DatabaseHandler call did
    \* ---- one connect attempt of each connector, with the full configuration
    bcfg,          \* the configuration: the config dict / the env values
    bout,          \* per connector: what its connect attempt built and did
    \* ---- the URI that DatabaseHandler prints, character by character
    mcfg,          \* user, password, host and database name as strings
    mout,          \* mongo_uri and masked_uri once line 45 has run
    \* ---- the operation facade of DatabaseHandler on one collection
    ftopo,         \* config['MONGO_TYPE'] of the connected handler
    store,         \* the collection's documents on every server node
    fres           \* what the latest facade call did

mvars == <<client, db, cstate, pinged, RUN_MODE, pc, pingdb, ret, indexCalls>>
hvars == <<instance, initialized, config, DEFAULT_MONGO_DB, mongo_client,
           hstate, hpinged, pings, harg, hret>>
fvars == <<ftopo, store, fres>>
bvars == <<bcfg, bout, mcfg, mout, ftopo, store, fres>>
vars == <<client, db, cstate, pinged, RUN_MODE, pc, pingdb, ret, indexCalls,
          instance, initialized, config, DEFAULT_MONGO_DB, mongo_client,
          hstate, hpinged, pings, harg, hret, bcfg, bout, mcfg, mout,
          ftopo, store, fres>>

\* A call's outcome: kind is "returned" or "raised"; val is the object handed
\* back (a client id for a database / collection handle) or the branch taken.
Result(op, kind, val) == [op |-> op, kind |-> kind, val |-> val]
NoResult == Result("none", "none", 0)

\* the next client object the driver constructs
HasFree(st) == \E c \in Clients : st[c] = "free"
Fresh(st) == CHOOSE c \in Clients : st[c] = "free" /\ \A d \in Clients : d < c => st[d] # "free"

\* client.close(): idempotent in the driver
CloseClient(st, c) == [st EXCEPT ![c] = "closed"]

\* `if cls.client: cls.client.close()`
CloseIfSet(st, c) == IF c # None THEN CloseClient(st, c) ELSE st

\* ------------------------------------------------------------ MongoDB
\* connect_db, lines 50-52 succeed: the client is constructed and stored, the
\* database is taken from it, the ping is issued and the task suspends (line 55)
connect_db_start(t) ==
    /\ pc[t] = "idle"
    /\ HasFree(cstate)
    /\ LET c == Fresh(cstate) IN
        /\ client' = c
        /\ db' = c
        /\ cstate' = [cstate EXCEPT ![c] = "open"]
        /\ pingdb' = [pingdb EXCEPT ![t] = c]
    /\ pc' = [pc EXCEPT ![t] = "ping"]
    /\ UNCHANGED <<pinged, RUN_MODE, ret, indexCalls>>

\* connect_db, AsyncIOMotorClient(...) raises at line 51: cls.client keeps its
\* earlier value, and the except block (lines 59-63) closes that
connect_db_ctor_fail(t) ==
    /\ pc[t] = "idle"
    /\ cstate' = CloseIfSet(cstate, client)
    /\ ret' = [ret EXCEPT ![t] = Result("connect_db", "raised", 0)]
    /\ UNCHANGED <<client, db, pinged, RUN_MODE, pc, pingdb, indexCalls>>

\* connect_db resumes after the ping succeeded: lines 57 and 65, `return cls.db`
connect_db_ping_ok(t) ==
    /\ pc[t] = "ping"
    /\ pinged' = pinged \cup {pingdb[t]}
    /\ ret' = [ret EXCEPT ![t] = Result("connect_db", "returned", db)]
    /\ pc' = [pc EXCEPT ![t] = "idle"]
    /\ pingdb' = [pingdb EXCEPT ![t] = None]
    /\ UNCHANGED <<client, db, cstate, RUN_MODE, indexCalls>>

\* the except block without `cls.client.close()`: the failed client stays open
connect_db_ping_fail_m(t) ==
    /\ pc[t] = "ping"
    /\ ret' = [ret EXCEPT ![t] = Result("connect_db", "raised", 0)]
    /\ pc' = [pc EXCEPT ![t] = "idle"]
    /\ pingdb' = [pingdb EXCEPT ![t] = None]
    /\ UNCHANGED <<client, db, cstate, pinged, RUN_MODE, indexCalls>>

\* connect_db resumes with the ping's error or the 5 s timeout: lines 59-63
connect_db_ping_fail(t) ==
    /\ pc[t] = "ping"
    /\ cstate' = CloseIfSet(cstate, client)
    /\ ret' = [ret EXCEPT ![t] = Result("connect_db", "raised", 0)]
    /\ pc' = [pc EXCEPT ![t] = "idle"]
    /\ pingdb' = [pingdb EXCEPT ![t] = None]
    /\ UNCHANGED <<client, db, pinged, RUN_MODE, indexCalls>>

\* close_db without the `if cls.client` guard: None.close() raises
close_db_m(t) ==
    /\ pc[t] = "idle"
    /\ cstate' = CloseIfSet(cstate, client)
    /\ ret' = [ret EXCEPT ![t] = IF client = None
                                   THEN Result("close_db", "raised", 0)
                                   ELSE Result("close_db", "returned",
                                               IF cstate[client] = "open" THEN 1 ELSE 2)]
    /\ UNCHANGED <<client, db, pinged, RUN_MODE, pc, pingdb, indexCalls>>

\* close_db, lines 90-92 (no await inside: one step).
\* val: 0 nothing to close, 1 closed an open client, 2 the client was closed already
close_db(t) ==
    /\ pc[t] = "idle"
    /\ cstate' = CloseIfSet(cstate, client)
    /\ ret' = [ret EXCEPT ![t] = Result("close_db", "returned",
                  IF client = None THEN 0 ELSE IF cstate[client] = "open" THEN 1 ELSE 2)]
    /\ UNCHANGED <<client, db, pinged, RUN_MODE, pc, pingdb, indexCalls>>

\* get_collection, lines 99-101: raises when db is None, else hands out db[name]
get_collection(t) ==
    /\ pc[t] = "idle"
    /\ ret' = [ret EXCEPT ![t] = IF db = None
                                   THEN Result("get_collection", "raised", 0)
                                   ELSE Result("get_collection", "returned", db)]
    /\ UNCHANGED <<client, db, cstate, pinged, RUN_MODE, pc, pingdb, indexCalls>>

\* init_local_db up to the await of init_all_indexes (lines 70-78).
\* val: 0 skipped (not connected), 1 skipped (not LOCAL)
init_local_db_start(t) ==
    /\ pc[t] = "idle"
    /\ IF db = None
       THEN /\ ret' = [ret EXCEPT ![t] = Result("init_local_db", "returned", 0)]
            /\ UNCHANGED <<pc, indexCalls>>
       ELSE IF RUN_MODE = "LOCAL"
            THEN /\ indexCalls < MaxIndexCalls
                 /\ indexCalls' = indexCalls + 1
                 /\ pc' = [pc EXCEPT ![t] = "idx"]
                 /\ UNCHANGED ret
            ELSE /\ ret' = [ret EXCEPT ![t] = Result("init_local_db", "returned", 1)]
                 /\ UNCHANGED <<pc, indexCalls>>
    /\ UNCHANGED <<client, db, cstate, pinged, RUN_MODE, pingdb>>

\* init_local_db without the try/except: the callback's exception propagates
IndexOutcome_m(raised) ==
    IF raised THEN Result("init_local_db", "raised", 0)
              ELSE Result("init_local_db", "returned", 2)

\* what init_local_db does with the callback's outcome (lines 77-81):
\* an exception is logged and swallowed.  val: 2 completed, 3 failure logged
IndexOutcome(raised) ==
    IF raised THEN Result("init_local_db", "returned", 3)
              ELSE Result("init_local_db", "returned", 2)

\* init_local_db resumes after init_all_indexes returned or raised an Exception
init_local_db_end(t) ==
    /\ pc[t] = "idx"
    /\ \E raised \in BOOLEAN : ret' = [ret EXCEPT ![t] = IndexOutcome(raised)]
    /\ pc' = [pc EXCEPT ![t] = "idle"]
    /\ UNCHANGED <<client, db, cstate, pinged, RUN_MODE, pingdb, indexCalls>>

\* ------------------------------------------------------- DatabaseHandler
\* the config dict passed to DatabaseHandler(config); MONGO_PASSWORD "None"
\* is Python's None, on which urllib.parse.quote_plus raises TypeError
Configs == [MONGO_DB : {"panda", "test"}, MONGO_PASSWORD : {"pw", "None"}]
NoConfig == [MONGO_DB |-> "unset", MONGO_PASSWORD |-> "unset"]

\* the guard of line 15 dropped: every construction connects again
AlreadyInitialized_m == FALSE

\* line 15: `hasattr(self, 'initialized') and self.initialized`
AlreadyInitialized == initialized

\* line 24: quote_plus(config["MONGO_PASSWORD"]) raises inside the try
BuildFails(cfg) == cfg.MONGO_PASSWORD = "None"

\* lines 8-11 and 18-20: __new__ stores the instance, __init__ records the
\* config and resets mongo_client to None before the try block
BeginInit(cfg) ==
    /\ ~AlreadyInitialized
    /\ instance' = TRUE
    /\ harg' = cfg
    /\ config' = cfg
    /\ DEFAULT_MONGO_DB' = cfg.MONGO_DB

\* DatabaseHandler(cfg) on an initialized instance: lines 8-16
Construct_noop(cfg) ==
    /\ AlreadyInitialized
    /\ instance' = TRUE
    /\ harg' = cfg
    /\ hret' = Result("DatabaseHandler", "returned", 1)
    /\ UNCHANGED <<initialized, config, DEFAULT_MONGO_DB, mongo_client, hstate, hpinged, pings>>

\* DatabaseHandler(cfg), building the URI raises (line 24): the except block
\* finds mongo_client None, closes nothing and raises ConnectionError
Construct_build_fail(cfg) ==
    /\ BeginInit(cfg)
    /\ BuildFails(cfg)
    /\ mongo_client' = None
    /\ hstate' = CloseIfSet(hstate, None)
    /\ hret' = Result("DatabaseHandler", "raised", 0)
    /\ UNCHANGED <<initialized, hpinged, pings>>

\* DatabaseHandler(cfg), pymongo.MongoClient(...) raises (line 49)
Construct_ctor_fail(cfg) ==
    /\ BeginInit(cfg)
    /\ ~BuildFails(cfg)
    /\ mongo_client' = None
    /\ hstate' = CloseIfSet(hstate, None)
    /\ hret' = Result("DatabaseHandler", "raised", 0)
    /\ UNCHANGED <<initialized, hpinged, pings>>

\* DatabaseHandler(cfg), client constructed and ping answered: lines 49-55
Construct_ok(cfg) ==
    /\ BeginInit(cfg)
    /\ ~BuildFails(cfg)
    /\ HasFree(hstate)
    /\ LET c == Fresh(hstate) IN
        /\ mongo_client' = c
        /\ hstate' = [hstate EXCEPT ![c] = "open"]
        /\ hpinged' = hpinged \cup {c}
    /\ pings' = pings + 1
    /\ initialized' = TRUE
    /\ hret' = Result("DatabaseHandler", "returned", 1)

\* the except block without `self.mongo_client.close()`
Construct_ping_fail_m(cfg) ==
    /\ BeginInit(cfg)
    /\ ~BuildFails(cfg)
    /\ HasFree(hstate)
    /\ LET c == Fresh(hstate) IN
        /\ mongo_client' = c
        /\ hstate' = [hstate EXCEPT ![c] = "open"]
    /\ pings' = pings + 1
    /\ hret' = Result("DatabaseHandler", "raised", 0)
    /\ UNCHANGED <<initialized, hpinged>>

\* DatabaseHandler(cfg), client constructed and ping raises: lines 49-52, 57-66
Construct_ping_fail(cfg) ==
    /\ BeginInit(cfg)
    /\ ~BuildFails(cfg)
    /\ HasFree(hstate)
    /\ LET c == Fresh(hstate) IN
        /\ mongo_client' = c
        /\ hstate' = CloseIfSet([hstate EXCEPT ![c] = "open"], c)
    /\ pings' = pings + 1
    /\ hret' = Result("DatabaseHandler", "raised", 0)
    /\ UNCHANGED <<initialized, hpinged>>

\* get_mongo_collection on DatabaseHandler._instance, line 113: subscripting
\* None raises TypeError, a client object hands out a collection handle
get_mongo_collection ==
    /\ instance
    /\ hret' = IF mongo_client = None
               THEN Result("get_mongo_collection", "raised", 0)
               ELSE Result("get_mongo_collection", "returned", mongo_client)
    /\ UNCHANGED <<instance, initialized, config, DEFAULT_MONGO_DB, mongo_client,
                   hstate, hpinged, pings, harg>>

Construct(cfg) ==
    \/ Construct_noop(cfg)
    \/ Construct_build_fail(cfg)
    \/ Construct_ctor_fail(cfg)
    \/ Construct_ok(cfg)
    \/ Construct_ping_fail(cfg)

HStep ==
    \/ \E cfg \in Configs : Construct(cfg)
    \/ get_mongo_collection

\* ------------------------------------------- connection parameters
\* Configuration values are tokens: "unset" is a key missing from the config
\* dict (for database.py: an env value that is None), "None" is Python's None,
\* "" the empty string. reachable: the server answers the ping.
Connectors == {"DatabaseHandler", "MongoDB"}
BuildConfigs ==
    [MONGO_USER : {"u", "", "None", "unset"},
     MONGO_PASSWORD : {"pw", "", "None", "unset"},
     MONGO_URI : {"h", "unset"},
     MONGO_TYPE : {"standalone", "replica_set", "sharded", "unset"},
     MONGO_REPLICA_SET : {"rs0", "None"},
     reachable : BOOLEAN]
NoBuild ==
    [MONGO_USER |-> "unset", MONGO_PASSWORD |-> "unset", MONGO_URI |-> "unset",
     MONGO_TYPE |-> "unset", MONGO_REPLICA_SET |-> "None", reachable |-> FALSE]

\* what a connect attempt did: kind "returned"/"raised" ("none": not run),
\* err the exception caught by the except block, kwargs the keyword names
\* passed to the client, uriReplicaSet the replicaSet of the URI's query
Out(kind, err, kwargs, rs, made, sent) ==
    [kind |-> kind, err |-> err, kwargs |-> kwargs, uriReplicaSet |-> rs,
     clientMade |-> made, pingSent |-> sent]
NoOut == Out("none", "none", {}, "absent", FALSE, FALSE)

\* Python truthiness of a configuration value
Truthy(v) == v \notin {"", "None", "unset"}

\* the ping's possible outcomes: TRUE answered, FALSE error or timeout. A
\* reachable server may still reject credentials that are not the real ones
PingAnswers(reachable, bogus) ==
    IF ~reachable THEN {FALSE} ELSE IF bogus THEN {TRUE, FALSE} ELSE {TRUE}

\* lines 40-43 with the replicaSet keyword set for every topology
MongoTopologyKwargs_m(type) ==
    IF type = "standalone" THEN {"directConnection", "replicaSet"}
    ELSE IF type = "replica_set" THEN {"replicaSet"}
    ELSE {}

\* database.py lines 40-43
MongoTopologyKwargs(type) ==
    IF type = "standalone" THEN {"directConnection"}
    ELSE IF type = "replica_set" THEN {"replicaSet"}
    ELSE {}

\* database.py lines 34-48
MongoKwargs(cfg) ==
    {"retryWrites", "w", "serverSelectionTimeoutMS"}
    \cup MongoTopologyKwargs(cfg.MONGO_TYPE)
    \cup (IF Truthy(cfg.MONGO_USER) /\ Truthy(cfg.MONGO_PASSWORD)
          THEN {"username", "password", "authSource"} ELSE {})

\* connect_db with the env values of bcfg, on a fresh process: the client is
\* always constructed (a None URI means localhost) and the ping sent
mongodb_connect ==
    /\ bout["MongoDB"].kind = "none"
    /\ \E ok \in PingAnswers(bcfg.reachable, FALSE) :
          bout' = [bout EXCEPT !["MongoDB"] =
                      Out(IF ok THEN "returned" ELSE "raised",
                          IF ok THEN "none" ELSE "ping",
                          MongoKwargs(bcfg), "absent", TRUE, TRUE)]
    /\ UNCHANGED bcfg

\* mongodb_handler.py lines 38-42: the keyword added for the topology
HandlerTopologyKwargs(type) ==
    IF type = "standalone" THEN {"directConnection"}
    ELSE IF type = "replica_set" THEN {"heartbeatFrequencyMS"}
    ELSE {}

\* mongodb_handler.py lines 28-42
HandlerKwargs(cfg) ==
    {"readPreference", "w", "retryWrites", "socketTimeoutMS", "connectTimeoutMS",
     "serverSelectionTimeoutMS", "authSource"}
    \cup HandlerTopologyKwargs(cfg.MONGO_TYPE)

\* mongodb_handler.py line 41: `?replicaSet=...` appended to the URI
HandlerUriReplicaSet(cfg) ==
    IF cfg.MONGO_TYPE = "replica_set" THEN cfg.MONGO_REPLICA_SET ELSE "absent"

\* the exception lines 24-42 raise before the client is constructed:
\* config[...] on a missing key, quote_plus(None)
HandlerBuildError(cfg) ==
    IF cfg.MONGO_PASSWORD = "unset" THEN "KeyError"
    ELSE IF cfg.MONGO_PASSWORD = "None" THEN "TypeError"
    ELSE IF cfg.MONGO_USER = "unset" \/ cfg.MONGO_URI = "unset" THEN "KeyError"
    ELSE IF cfg.MONGO_TYPE = "unset" THEN "KeyError"
    ELSE "none"

\* pymongo.MongoClient(mongo_uri, ...) at line 49 rejects `mongodb://:...@`
\* ("The empty string is not valid username")
HandlerCtorError(cfg) ==
    IF cfg.MONGO_USER = "" THEN "InvalidURI" ELSE "none"

\* DatabaseHandler(bcfg) on a fresh process, lines 18-66
handler_connect ==
    /\ bout["DatabaseHandler"].kind = "none"
    /\ IF HandlerBuildError(bcfg) # "none"
       THEN bout' = [bout EXCEPT !["DatabaseHandler"] =
                        Out("raised", HandlerBuildError(bcfg), {}, "absent", FALSE, FALSE)]
       ELSE IF HandlerCtorError(bcfg) # "none"
       THEN bout' = [bout EXCEPT !["DatabaseHandler"] =
                        Out("raised", HandlerCtorError(bcfg), HandlerKwargs(bcfg),
                            HandlerUriReplicaSet(bcfg), FALSE, FALSE)]
       ELSE \E ok \in PingAnswers(bcfg.reachable,
                                  ~(bcfg.MONGO_USER = "u" /\ bcfg.MONGO_PASSWORD = "pw")) :
               bout' = [bout EXCEPT !["DatabaseHandler"] =
                           Out(IF ok THEN "returned" ELSE "raised",
                               IF ok THEN "none" ELSE "ping",
                               HandlerKwargs(bcfg), HandlerUriReplicaSet(bcfg), TRUE, TRUE)]
    /\ UNCHANGED bcfg

BIdle == bcfg = NoBuild /\ bout = [w \in Connectors |-> NoOut]

\* ------------------------------------------------------- masked URI
\* A string is a sequence of one-character strings.
MaxPwLen == 2
MaxUserLen == 3

Alphabet == {"@", "%", "4", "0"}
Strs(n) == UNION {[1..k -> Alphabet] : k \in 0..n}
HostNames == {<<"h">>, <<"%", "4", "0">>}
DbNames == {<<"d">>, <<"@">>}

\* characters urllib.parse.quote_plus leaves as they are: letters, digits, _.-~
SafeChars == {"a", "b", "d", "g", "h", "m", "n", "o",
              "0", "2", "4", "5", "_", ".", "-", "~"}

\* quote_plus of one character: %XX of its code, "+" for a space
QuoteChar(c) ==
    IF c \in SafeChars THEN <<c>>
    ELSE IF c = " " THEN <<"+">>
    ELSE IF c = "@" THEN <<"%", "4", "0">>
    ELSE IF c = "%" THEN <<"%", "2", "5">>
    ELSE IF c = ":" THEN <<"%", "3", "A">>
    ELSE IF c = "/" THEN <<"%", "2", "F">>
    ELSE <<"%", "2", "A">>

RECURSIVE QuotePlus(_)
\* urllib.parse.quote_plus(s), line 24
QuotePlus(s) == IF s = <<>> THEN <<>> ELSE QuoteChar(Head(s)) \o QuotePlus(Tail(s))

RECURSIVE Replace(_, _, _)
\* Python's s.replace(old, new): every occurrence, left to right, not
\* overlapping; an empty old puts new before every character and at the end
Replace(s, old, new) ==
    IF old = <<>>
    THEN IF s = <<>> THEN new ELSE new \o <<Head(s)>> \o Replace(Tail(s), old, new)
    ELSE IF Len(s) < Len(old) THEN s
    ELSE IF SubSeq(s, 1, Len(old)) = old
         THEN new \o Replace(SubSeq(s, Len(old) + 1, Len(s)), old, new)
         ELSE <<Head(s)>> \o Replace(Tail(s), old, new)

\* p occurs in s (Python's `p in s`)
Sub(p, s) == \E i \in 1..(Len(s) - Len(p) + 1) : SubSeq(s, i, i + Len(p) - 1) = p

\* line 25: f'mongodb://{user}:{encoded_password}@{host}/{db}'
MongoUri(cfg) ==
    <<"m", "o", "n", "g", "o", "d", "b", ":", "/", "/">> \o cfg.MONGO_USER \o <<":">>
    \o QuotePlus(cfg.MONGO_PASSWORD) \o <<"@">> \o cfg.MONGO_URI \o <<"/">> \o cfg.MONGO_DB

Stars == <<"*", "*", "*", "*">>

\* line 45 replacing the raw password instead of the encoded one
MaskedUri_m(cfg) == Replace(MongoUri(cfg), cfg.MONGO_PASSWORD, Stars)

\* line 45: mongo_uri.replace(encoded_password, "****")
MaskedUri(cfg) == Replace(MongoUri(cfg), QuotePlus(cfg.MONGO_PASSWORD), Stars)

MaskConfigs ==
    [MONGO_USER : Strs(MaxUserLen), MONGO_PASSWORD : Strs(MaxPwLen),
     MONGO_URI : HostNames, MONGO_DB : DbNames]
NoMaskConfig ==
    [MONGO_USER |-> <<>>, MONGO_PASSWORD |-> <<>>, MONGO_URI |-> <<>>, MONGO_DB |-> <<>>]
NoMask == [done |-> FALSE, uri |-> <<>>, masked |-> <<>>]

\* DatabaseHandler.__init__ lines 24-46: build the URI and print it masked
print_masked_uri ==
    /\ ~mout.done
    /\ mout' = [done |-> TRUE, uri |-> MongoUri(mcfg), masked |-> MaskedUri(mcfg)]
    /\ UNCHANGED mcfg

MIdle == mcfg = NoMaskConfig /\ mout = NoMask

\* ------------------------------------------------- operation facade
\* One collection. A document has a generated id and the fields a and b, each
\* "0", "1" or absent. A standalone server is the single node "primary"; a
\* replica set is a primary and two secondaries.
MaxDocs == 2

Secondaries == {"s1", "s2"}
Nodes == {"primary"} \cup Secondaries
Fields == {"a", "b"}
Vals == {"0", "1"}
Absent == "absent"
Keep == "keep"
Bodies == [a : Vals \cup {Absent}, b : Vals \cup {Absent}]
Doc(i, body) == [id |-> i, a |-> body.a, b |-> body.b]
\* Python's None as a find_one result
NoDoc == [id |-> 0, a |-> "None", b |-> "None"]

\* the caller's `update` dict: the value to set for each field it names
UpdateFields == [a : Vals \cup {Keep}, b : Vals \cup {Keep}] \ {[a |-> Keep, b |-> Keep]}
\* the update document handed to the driver: a plain field dict, or an
\* operator document {'$set': fields} / {'$unset': fields}
UpdateDocs == [op : {"plain", "$set", "$unset"}, fields : UpdateFields]
\* the filters used here: {} ("all") or {'a': v}
Queries == {"all"} \cup Vals
Matches(d, q) == q = "all" \/ d.a = q

Fres(op, kind, i, doc, n) == [op |-> op, kind |-> kind, id |-> i, doc |-> doc, count |-> n]
NoFres == Fres("none", "none", 0, NoDoc, 0)

\* 'w': 'majority' (line 30): the secondaries that have the write when it is
\* acknowledged; with three voting nodes, at least one of the two secondaries
Acked(topo) ==
    IF topo = "standalone" THEN {{}} ELSE {M \in SUBSET Secondaries : M # {}}

\* the nodes after a write that leaves the primary with docs, acknowledged by M
ApplyWrite(docs, M) ==
    [n \in Nodes |-> IF n = "primary" \/ n \in M THEN docs ELSE store[n]]

\* 'readPreference' (line 29) and directConnection (line 39): the nodes a read
\* may be served by
ReadNodes(topo) ==
    IF topo = "standalone" THEN {"primary"} ELSE Secondaries

\* the server applying an operator document to one document
ApplyUpdate(d, upd) ==
    [f \in {"id", "a", "b"} |->
        IF f \in Fields /\ upd.fields[f] # Keep
        THEN (IF upd.op = "$unset" THEN Absent ELSE upd.fields[f])
        ELSE d[f]]

\* the document an upsert inserts: the filter's equality field, then the update
UpsertDoc(i, q, upd) ==
    ApplyUpdate(Doc(i, [a |-> IF q = "all" THEN Absent ELSE q, b |-> Absent]), upd)

UpdatedDocs(docs, q, upd) ==
    {IF Matches(d, q) THEN ApplyUpdate(d, upd) ELSE d : d \in docs}
Modified(docs, q, upd) ==
    Cardinality({d \in docs : Matches(d, q) /\ ApplyUpdate(d, upd) # d})

\* mongo_insert, lines 68-70: insert_one and its generated id
mongo_insert(body) ==
    /\ Cardinality(store["primary"]) < MaxDocs
    /\ LET i == Cardinality(store["primary"]) + 1 IN
       \E M \in Acked(ftopo) :
          /\ store' = ApplyWrite(store["primary"] \cup {Doc(i, body)}, M)
          /\ fres' = Fres("mongo_insert", "returned", i, Doc(i, body), 0)
    /\ UNCHANGED ftopo

\* a secondary of the replica set catches up with the primary
replicate(s) ==
    /\ ftopo = "replica_set"
    /\ store[s] # store["primary"]
    /\ store' = [store EXCEPT ![s] = store["primary"]]
    /\ UNCHANGED <<ftopo, fres>>

\* mongo_find_one with the filter {'_id': i}, lines 146-156
mongo_find_one(i) ==
    /\ \E n \in ReadNodes(ftopo) :
          fres' = Fres("mongo_find_one", "returned", i,
                       IF \E d \in store[n] : d.id = i
                       THEN CHOOSE d \in store[n] : d.id = i
                       ELSE NoDoc, 0)
    /\ UNCHANGED <<ftopo, store>>

\* mongo_update, lines 95-97: update_many(query, {'$set': update}).modified_count
mongo_update(q, u) ==
    /\ LET upd == [op |-> "$set", fields |-> u] IN
       \E M \in Acked(ftopo) :
          /\ store' = ApplyWrite(UpdatedDocs(store["primary"], q, upd), M)
          /\ fres' = Fres("mongo_update", "returned", 0, NoDoc,
                          Modified(store["primary"], q, upd))
    /\ UNCHANGED ftopo

\* mongo_update_one, lines 99-106: update_many(filter=query, update=update,
\* upsert=upsert) with the caller's update document as it is. The driver
\* raises ValueError for a document that is not made of $ operators.
mongo_update_one(q, upd, upsert) ==
    /\ IF upd.op = "plain"
       THEN /\ fres' = Fres("mongo_update_one", "raised", 0, NoDoc, 0)
            /\ UNCHANGED store
       ELSE IF upsert /\ ~\E d \in store["primary"] : Matches(d, q)
       THEN /\ Cardinality(store["primary"]) < MaxDocs
            /\ LET i == Cardinality(store["primary"]) + 1 IN
               \E M \in Acked(ftopo) :
                  /\ store' = ApplyWrite(store["primary"] \cup {UpsertDoc(i, q, upd)}, M)
                  /\ fres' = Fres("mongo_update_one", "returned", i, NoDoc, 0)
       ELSE \E M \in Acked(ftopo) :
               /\ store' = ApplyWrite(UpdatedDocs(store["primary"], q, upd), M)
               /\ fres' = Fres("mongo_update_one", "returned", 0, NoDoc,
                               Modified(store["primary"], q, upd))
    /\ UNCHANGED ftopo

FIdle == ftopo = "unset" /\ store = [n \in Nodes |-> {}] /\ fres = NoFres

MInit ==
    /\ client = None
    /\ db = None
    /\ cstate = [c \in Clients |-> "free"]
    /\ pinged = {}
    /\ RUN_MODE \in {"LOCAL", "CLOUD"}
    /\ pc = [t \in Tasks |-> "idle"]
    /\ pingdb = [t \in Tasks |-> None]
    /\ ret = [t \in Tasks |-> NoResult]
    /\ indexCalls = 0

HInit ==
    /\ instance = FALSE
    /\ initialized = FALSE
    /\ config = NoConfig
    /\ DEFAULT_MONGO_DB = "None"
    /\ mongo_client = None
    /\ hstate = [c \in Clients |-> "free"]
    /\ hpinged = {}
    /\ pings = 0
    /\ harg = NoConfig
    /\ hret = NoResult

Init == MInit /\ HInit /\ BIdle /\ MIdle /\ FIdle

MStep(t) ==
    \/ connect_db_start(t)
    \/ connect_db_ctor_fail(t)
    \/ connect_db_ping_ok(t)
    \/ connect_db_ping_fail(t)
    \/ close_db(t)
    \/ get_collection(t)
    \/ init_local_db_start(t)
    \/ init_local_db_end(t)

\* the asyncio connector called from concurrent tasks
Next == \E t \in Tasks : MStep(t) /\ UNCHANGED hvars /\ UNCHANGED bvars

Spec == Init /\ [][Next]_vars

\* one caller at a time: every call completes before the next one starts,
\* on the asyncio connector and on DatabaseHandler
NextSeq ==
    \/ \E t \in SeqTasks : MStep(t) /\ UNCHANGED hvars /\ UNCHANGED bvars
    \/ HStep /\ UNCHANGED mvars /\ UNCHANGED bvars

SpecSeq == Init /\ [][NextSeq]_vars

\* DatabaseHandler alone: constructions and lookups of one caller
NextHandler == HStep /\ UNCHANGED mvars /\ UNCHANGED bvars

SpecHandler == Init /\ [][NextHandler]_vars

\* one connect attempt of each connector on a fresh process, for every
\* configuration
InitBuild ==
    /\ MInit /\ RUN_MODE = "LOCAL"
    /\ HInit
    /\ bcfg \in BuildConfigs
    /\ bout = [w \in Connectors |-> NoOut]
    /\ MIdle
    /\ FIdle

NextBuild ==
    \/ handler_connect /\ UNCHANGED <<mvars, hvars, mcfg, mout, fvars>>
    \/ mongodb_connect /\ UNCHANGED <<mvars, hvars, mcfg, mout, fvars>>

SpecBuild == InitBuild /\ [][NextBuild]_vars

\* the masked URI of DatabaseHandler for every user, password, host and database
InitMask ==
    /\ MInit /\ RUN_MODE = "LOCAL"
    /\ HInit
    /\ BIdle
    /\ FIdle
    /\ mcfg \in MaskConfigs
    /\ mout = NoMask

NextMask == print_masked_uri /\ UNCHANGED <<mvars, hvars, bcfg, bout, fvars>>

SpecMask == InitMask /\ [][NextMask]_vars

\* the facade of a connected handler on an empty collection
InitFacade(topos) ==
    /\ MInit /\ RUN_MODE = "LOCAL"
    /\ HInit
    /\ BIdle
    /\ MIdle
    /\ ftopo \in topos
    /\ store = [n \in Nodes |-> {}]
    /\ fres = NoFres

FFrame == UNCHANGED <<mvars, hvars, bcfg, bout, mcfg, mout>>

\* inserts, updates and reads on a standalone server
NextUpdate ==
    \/ \E body \in Bodies : mongo_insert(body) /\ FFrame
    \/ \E q \in Queries, u \in UpdateFields : mongo_update(q, u) /\ FFrame
    \/ \E q \in Queries, upd \in UpdateDocs, upsert \in BOOLEAN :
          mongo_update_one(q, upd, upsert) /\ FFrame
    \/ \E i \in 1..MaxDocs : mongo_find_one(i) /\ FFrame

SpecUpdate == InitFacade({"standalone"}) /\ [][NextUpdate]_vars

\* inserts and reads by id on a standalone server or a replica set
NextRoundTrip ==
    \/ \E body \in Bodies : mongo_insert(body) /\ FFrame
    \/ \E s \in Secondaries : replicate(s) /\ FFrame
    \/ \E i \in 1..MaxDocs : mongo_find_one(i) /\ FFrame

SpecRoundTrip == InitFacade({"standalone", "replica_set"}) /\ [][NextRoundTrip]_vars

\* ------------------------------------------------------ readiness
\* the asyncio connector is ready: db is bound to the stored client, that
\* client is open and no connect_db is still waiting for its ping
Ready ==
    /\ db # None
    /\ client = db
    /\ cstate[db] = "open"
    /\ \A t \in Tasks : ~(pc[t] = "ping" /\ pingdb[t] = db)

\* DatabaseHandler is ready: initialized and holding an open client
HReady == initialized /\ mongo_client # None /\ hstate[mongo_client] = "open"

OpenClients == {c \in Clients : cstate[c] = "open"}

\* ------------------------------------------------------------ claims

\* C1 (as claimed): after any sequence of connect_db and close_db calls at
\* most one created-and-not-closed Motor client exists.
CexC1 == Cardinality(OpenClients) <= 1

\* C2: constructing DatabaseHandler(config2) on an initialized instance
\* returns the instance and changes neither config, DEFAULT_MONGO_DB,
\* mongo_client, initialized nor any client, and sends no ping.
ThmC2 ==
    [][\A cfg \in Configs :
        (Construct(cfg) /\ initialized) =>
            /\ hret' = Result("DatabaseHandler", "returned", 1)
            /\ UNCHANGED <<instance, initialized, config, DEFAULT_MONGO_DB,
                           mongo_client, hstate, hpinged, pings>>]_vars

\* a construction with a config other than the stored one was a no-op
WitC2 ==
    /\ initialized
    /\ hret = Result("DatabaseHandler", "returned", 1)
    /\ harg # config
    /\ pings = 1

\* C3 (as claimed): a get_collection made right after the caller's close_db
\* closed a connector that had been ready, with no new connect since, raises.
CexC3 ==
    [][\A t \in Tasks :
        (/\ get_collection(t)
         /\ ret[t].op = "close_db"
         /\ db # None /\ db \in pinged
         /\ ~Ready)
        => ret'[t].kind = "raised"]_vars

\* C4 (as claimed): an accessor call made while the connector never connected,
\* or right after the caller's connect attempt raised, raises and hands out no
\* handle (MongoDB.get_collection and DatabaseHandler.get_mongo_collection).
CexC4 ==
    [][/\ \A t \in Tasks :
            (/\ get_collection(t)
             /\ ~Ready
             /\ (db = None \/ (ret[t].op = "connect_db" /\ ret[t].kind = "raised")))
            => ret'[t].kind = "raised"
       /\ (get_mongo_collection /\ hret.op = "DatabaseHandler" /\ hret.kind = "raised")
            => hret'.kind = "raised"]_vars

CexC6 ==
    [][\A t \in Tasks :
        LET ClosedNow == {c \in Clients : cstate[c] = "open" /\ cstate'[c] = "closed"} IN
        /\ connect_db_ctor_fail(t) => ClosedNow = {}
        /\ connect_db_ping_fail(t) =>
              (cstate'[pingdb[t]] = "closed" /\ ClosedNow \subseteq {pingdb[t]})]_vars

\* C7 (as claimed): two tasks inside connect_db at the same time wait on one
\* and the same client; no second client is created.
CexC7 ==
    \A t1, t2 \in Tasks :
        (t1 # t2 /\ pc[t1] = "ping" /\ pc[t2] = "ping") => pingdb[t1] = pingdb[t2]

\* C8 (as claimed): init_all_indexes is invoked only in run mode LOCAL, only
\* on a ready connector, and at most once.
CexC8 ==
    [][indexCalls' > indexCalls =>
        (RUN_MODE = "LOCAL" /\ Ready /\ indexCalls = 0)]_vars

\* C9: init_local_db never raises, whatever init_all_indexes does, and
\* leaves client, db and every client object as they were.
ThmC9 ==
    [][\A t \in Tasks :
        (init_local_db_start(t) \/ init_local_db_end(t)) =>
            /\ client' = client /\ db' = db /\ cstate' = cstate
            /\ pc'[t] = "idle" =>
                  (ret'[t].op = "init_local_db" /\ ret'[t].kind = "returned")]_vars

\* init_local_db returned after the callback raised
WitC9 == \E t \in Tasks : ret[t] = Result("init_local_db", "returned", 3)

\* C10: close_db never raises; before any connect, or on an already closed
\* client, it changes neither client, db nor any client object.
ThmC10 ==
    [][\A t \in Tasks :
        close_db(t) =>
            /\ ret'[t].op = "close_db" /\ ret'[t].kind = "returned"
            /\ (client = None \/ cstate[client] = "closed") =>
                  UNCHANGED <<client, db, cstate, pinged>>]_vars

\* one close_db ran before any connect and another one on a closed client
WitC10 ==
    \E t1, t2 \in Tasks :
        /\ ret[t1] = Result("close_db", "returned", 0)
        /\ ret[t2] = Result("close_db", "returned", 2)

\* C18 (as claimed): get_collection called while another task is suspended in
\* connect_db at the ping await raises and hands out no handle.
CexC18 ==
    [][\A t \in Tasks :
        (get_collection(t) /\ \E u \in Tasks : u # t /\ pc[u] = "ping")
        => (ret'[t].op = "get_collection" /\ ret'[t].kind = "raised")]_vars

\* C19 (as claimed): a connect_db that returns normally returns the database
\* of the client it created and pinged itself, still open at that moment, and
\* a failing connect_db closes no client created by another call.
CexC19 ==
    [][\A t \in Tasks :
        LET ClosedNow == {c \in Clients : cstate[c] = "open" /\ cstate'[c] = "closed"} IN
        /\ connect_db_ping_ok(t) =>
              (ret'[t].val = pingdb[t] /\ cstate[pingdb[t]] = "open")
        /\ connect_db_ping_fail(t) => ClosedNow \subseteq {pingdb[t]}
        /\ connect_db_ctor_fail(t) => ClosedNow = {}]_vars

\* C20: over any sequence of DatabaseHandler constructions at most one
\* pymongo client is open; initialized implies mongo_client is a client that
\* passed the ping and is open; a construction that raises leaves initialized
\* unset, and a construction on an instance not initialized connects again
\* (it stores the new config and either raises or ends on a new pinged client).
ThmC20 ==
    [][/\ Cardinality({c \in Clients : hstate'[c] = "open"}) <= 1
       /\ initialized' =>
             (/\ mongo_client' # None
              /\ mongo_client' \in hpinged'
              /\ hstate'[mongo_client'] = "open")
       /\ \A cfg \in Configs :
             (Construct(cfg) /\ ~initialized) =>
                 /\ config' = cfg
                 /\ hret'.kind = "raised" => ~initialized'
                 /\ hret'.kind = "returned" =>
                       (/\ initialized'
                        /\ hstate[mongo_client'] = "free"
                        /\ pings' = pings + 1)]_vars

\* a construction succeeded after an earlier one had failed at the ping
WitC20 ==
    /\ initialized
    /\ mongo_client \in hpinged
    /\ hstate[mongo_client] = "open"
    /\ \E c \in Clients : hstate[c] = "closed" /\ c \notin hpinged

\* the connector's attempt reached the client constructor with its parameters
Passed(w) == bout[w].kind # "none" /\ bout[w].kwargs # {}

\* C11 (as claimed): a connect whose topology is neither standalone nor
\* replica_set, or whose host or topology is missing, fails before any client
\* is constructed and before any ping is sent.
CexC11 ==
    \A w \in Connectors :
        (/\ bout[w].kind # "none"
         /\ (bcfg.MONGO_TYPE \notin {"standalone", "replica_set"} \/ bcfg.MONGO_URI = "unset"))
        => (bout[w].kind = "raised" /\ ~bout[w].clientMade /\ ~bout[w].pingSent)

\* C12 (as claimed): with topology replica_set the URI or keyword set passed
\* to the client names the replica set, sets a heartbeat interval and does
\* not set directConnection, in both connectors.
CexC12 ==
    \A w \in Connectors :
        (Passed(w) /\ bcfg.MONGO_TYPE = "replica_set") =>
            /\ (bout[w].uriReplicaSet = bcfg.MONGO_REPLICA_SET \/ "replicaSet" \in bout[w].kwargs)
            /\ "heartbeatFrequencyMS" \in bout[w].kwargs
            /\ "directConnection" \notin bout[w].kwargs

\* C13: with topology standalone the keyword set passed to the client has
\* directConnection and neither the URI nor the keywords carry a replica set,
\* in both connectors.
ThmC13 ==
    \A w \in Connectors :
        (Passed(w) /\ bcfg.MONGO_TYPE = "standalone") =>
            /\ "directConnection" \in bout[w].kwargs
            /\ "replicaSet" \notin bout[w].kwargs
            /\ bout[w].uriReplicaSet = "absent"

\* both connectors constructed their client for a standalone configuration
WitC13 ==
    /\ bcfg.MONGO_TYPE = "standalone"
    /\ \A w \in Connectors : Passed(w) /\ bout[w].clientMade

\* C15 (as claimed): with user and password absent (unset, None or empty), a
\* host and a known topology, and a reachable server, the connect succeeds in
\* both connectors.
CexC15 ==
    \A w \in Connectors :
        (/\ bout[w].kind # "none"
         /\ ~Truthy(bcfg.MONGO_USER) /\ ~Truthy(bcfg.MONGO_PASSWORD)
         /\ bcfg.MONGO_URI = "h"
         /\ bcfg.MONGO_TYPE \in {"standalone", "replica_set"}
         /\ bcfg.reachable)
        => bout[w].kind = "returned"

\* the password has a character that quote_plus percent-encodes
HasReserved(P) == \E i \in 1..Len(P) : P[i] \notin SafeChars

\* C14 (as claimed): for every password P with URI-reserved characters the
\* masked URI contains neither P nor its percent-encoded form.
CexC14 ==
    (mout.done /\ HasReserved(mcfg.MONGO_PASSWORD)) =>
        /\ ~Sub(mcfg.MONGO_PASSWORD, mout.masked)
        /\ ~Sub(QuotePlus(mcfg.MONGO_PASSWORD), mout.masked)

\* C14 (amended): for every password P with URI-reserved characters and all
\* user, host and database strings, the masked URI does not contain the
\* percent-encoded form of P.
ThmC14 ==
    (mout.done /\ HasReserved(mcfg.MONGO_PASSWORD)) =>
        ~Sub(QuotePlus(mcfg.MONGO_PASSWORD), mout.masked)

\* a URI whose user name carried the encoded password as well was masked
WitC14 ==
    /\ mout.done
    /\ HasReserved(mcfg.MONGO_PASSWORD)
    /\ Sub(QuotePlus(mcfg.MONGO_PASSWORD), mcfg.MONGO_USER)
    /\ Sub(Stars, mout.masked)

\* the collection on the primary after $set of u on the documents matching q
SetSemantics(q, u) ==
    \A d \in store["primary"] :
        IF Matches(d, q)
        THEN \E e \in store'["primary"] :
                /\ e.id = d.id
                /\ \A f \in Fields : e[f] = IF u[f] # Keep THEN u[f] ELSE d[f]
        ELSE d \in store'["primary"]

\* C16 (as claimed): mongo_update and mongo_update_one (with or without
\* upsert) apply the caller's update with $set semantics: the call returns,
\* every matched document gets the named fields set and keeps its other
\* fields, every other document stays as it is.
CexC16 ==
    [][\A q \in Queries, u \in UpdateFields :
        /\ mongo_update(q, u) => (fres'.kind = "returned" /\ SetSemantics(q, u))
        /\ \A upsert \in BOOLEAN :
              mongo_update_one(q, [op |-> "plain", fields |-> u], upsert)
              => (fres'.kind = "returned" /\ SetSemantics(q, u))]_vars

\* C17 (as claimed): mongo_find_one filtered on the id that the preceding
\* mongo_insert returned gives back the inserted document with that id, on a
\* standalone server and on a replica set.
CexC17 ==
    [][\A i \in 1..MaxDocs :
        (mongo_find_one(i) /\ fres.op = "mongo_insert" /\ fres.id = i)
        => fres'.doc = fres.doc]_vars
====
